---- MODULE Spec2Model ----
(***************************************************************************)
(* Model of the autoscheduler cost model of src/src/CostModelGenerator.cpp *)
(* (CostModel<training>::generate and ModelWeight<training>).              *)
(*                                                                         *)
(* Numbers.  The pipeline computes in float.  The forward graph is         *)
(* modelled in fixed point: a value is an integer count of units of 1e-5   *)
(* (the leak of the activation), and products and quotients truncate       *)
(* toward zero.  The channel and feature extents of the source (24, 56,    *)
(* 7, 26, 48, 96, 120, 168) are scaled to NumChannels; the stage axis, the *)
(* batch axis and the three-tap support keep their source extents.         *)
(***************************************************************************)
EXTENDS Integers, Sequences, FiniteSets, TLC

VARIABLES
    pc,                 \* "idle", "prepared_inference", "prepared_training", "inference", "training"
    num_stages,         \* Input<int> num_stages
    batch_size,         \* Input<int> batch_size
    pipeline_features,  \* Input<Buffer<float>> [c][j][s]
    schedule_features,  \* Input<Buffer<float>> [n][c][s]
    stats,              \* pipeline_mean, pipeline_std, schedule_mean, schedule_std
    weights,            \* the sixteen weight input buffers
    learning_rate,      \* Input<float> learning_rate
    timestep,           \* Input<int> timestep
    true_runtime,       \* Input<Buffer<float>> [n]
    updated,            \* the sixteen output buffers updated_<name>, four planes an entry
    prediction_output,  \* Output<Buffer<float>> [n]
    loss_output,        \* Output<Buffer<float>> scalar
    padded_stages,      \* Expr padded_stages
    first_valid,        \* Expr first_valid
    pool3_stages,       \* extent pool3 / relu4 are padded to
    pool4_stages,       \* extent pool4 / relu5 are padded to
    reduce_stages,      \* extent of RDom r_reduce
    conv6_out,          \* training, in steps: conv6 realised at root, [n][w]
    intm,               \* training, in steps: the partial sums of the groups that have run
    bias6_gradient      \* training, in steps: the merged gradient of bias6

vars == <<pc, num_stages, batch_size, pipeline_features, schedule_features, stats,
          weights, learning_rate, timestep, true_runtime, updated,
          prediction_output, loss_output, padded_stages, first_valid,
          pool3_stages, pool4_stages, reduce_stages,
          conv6_out, intm, bias6_gradient>>

reduction == <<conv6_out, intm, bias6_gradient>>

inputs == <<num_stages, batch_size, pipeline_features, schedule_features, stats,
            weights, learning_rate, timestep, true_runtime>>

(***************************************************************************)
(* Bounds of the model.                                                    *)
(***************************************************************************)
MaxStages == 32

MaxTimestep == 1

MaxBatch == 9

NumChannels == 1

(***************************************************************************)
(* Integer helpers.                                                        *)
(***************************************************************************)
Max(a, b) == IF a >= b THEN a ELSE b

Min(a, b) == IF a <= b THEN a ELSE b

Abs(a) == IF a >= 0 THEN a ELSE -a

Sign(a) == IF a > 0 THEN 1 ELSE IF a < 0 THEN -1 ELSE 0

\* a fixed-point quotient by a positive integer, truncated toward zero
CDiv(a, b) == IF a >= 0 THEN a \div b ELSE -((-a) \div b)

Chan(n) == 0 .. (n - 1)

RECURSIVE SumTo(_, _)
SumTo(F(_), n) == IF n <= 0 THEN 0 ELSE F(n - 1) + SumTo(F, n - 1)

(***************************************************************************)
(* Fixed point.                                                            *)
(***************************************************************************)
LeakInv == 100000

Unit == LeakInv

\* a * b of two fixed-point values, truncated; the operands are split at
\* 1000 so that no intermediate leaves 32 bits.
MulFix(a, b) ==
    LET x == Abs(a)
        y == Abs(b)
        xh == x \div 1000
        xl == x % 1000
        yh == y \div 1000
        yl == y % 1000
    IN  Sign(a) * Sign(b) *
        (xh * yh * 10 + ((xh * yl + xl * yh) * 10 + (xl * yl) \div 100) \div 1000)

\* a / b of two fixed-point values, b # 0, truncated.
DivFix(a, b) ==
    LET x == Abs(a)
        y == Abs(b)
        r == x % y
        r2 == (r * 1000) % y
    IN  Sign(a) * Sign(b) *
        ((x \div y) * Unit + ((r * 1000) \div y) * 100 + (r2 * 100) \div y)

(***************************************************************************)
(* Stage-axis geometry.                                                    *)
(***************************************************************************)
MinPaddedStages == 22

PaddedStagesExpr(ns) == Max(ns, MinPaddedStages)

\* first_valid without the halving
FirstValidNoHalving(ns) == Max(0, PaddedStagesExpr(ns) - ns)

\* first_valid with the division rounded up
FirstValidCeil(ns) == Max(0, (PaddedStagesExpr(ns) - ns + 1) \div 2)

\* the division of two int Exprs rounds toward minus infinity, as \div does
FirstValidExpr(ns) == Max(0, (PaddedStagesExpr(ns) - ns) \div 2)

\* RDom r_s(first_valid, num_stages): the stage positions the update
\* definitions of the normalized features write.
r_s(ns) == FirstValidExpr(ns) .. (FirstValidExpr(ns) + ns - 1)

\* the extent of pool3 as half of padded_stages, without the extra position
Pool3StagesHalf(ps) == ps \div 2

\* the extent of pool3 as half of padded_stages rounded up
Pool3StagesCeil(ps) == (ps + 1) \div 2

Pool3Stages(ps) == ps \div 2 + 1

Pool4Stages(ps) == (ps + 6) \div 4

\* r_reduce without the six positions of padding
ReduceStagesNoPad(ps) == ps \div 4

ReduceStages(ps) == (ps + 6) \div 4

(***************************************************************************)
(* Extents of the weights and features.                                    *)
(***************************************************************************)
head1_channels == NumChannels

head1_w == NumChannels

head1_h == NumChannels

head2_channels == NumChannels

head2_w == NumChannels

conv1_channels == NumChannels

conv2_channels == NumChannels

conv3_channels == NumChannels

conv4_channels == NumChannels

conv5_channels == NumChannels

conv_support == 3

\* head1_filter.dim(0).extent(), as set_shape fixes it.
Head1FilterExtent0 == head1_channels

(***************************************************************************)
(* Feature normalization.                                                  *)
(***************************************************************************)
StdFloorInv == 100000000

\* (v - mean) / max(1e-8f, std)
Whiten(v, mean, std) ==
    IF std >= 1 THEN DivFix(v - mean, std) ELSE (v - mean) * StdFloorInv

\* fast_log on the values the schedule features take (1, 2, 3).
fast_log(v) ==
    CASE v = Unit -> 0
      [] v = 2 * Unit -> 69315
      [] v = 3 * Unit -> 109861

\* the update definition over RDom(0, num_stages): the window not centred
normalized_pipeline_features_uncentred(pf, st, ns, c, j, s) ==
    IF 0 <= s /\ s < ns
    THEN Whiten(pf[c][j][s], st.pipeline_mean[c][j], st.pipeline_std[c][j])
    ELSE 0

normalized_pipeline_features(pf, st, ns, c, j, s) ==
    IF s \in r_s(ns)
    THEN Whiten(pf[c][j][s - FirstValidExpr(ns)], st.pipeline_mean[c][j], st.pipeline_std[c][j])
    ELSE 0

\* one row n of the schedule features
normalized_schedule_features(sfn, st, ns, c, s) ==
    IF s \in r_s(ns)
    THEN Whiten(fast_log(sfn[c][s - FirstValidExpr(ns)] + Unit), st.schedule_mean[c], st.schedule_std[c])
    ELSE 0

(***************************************************************************)
(* The forward graph.  A Func over (c, w) is realised as an array over the *)
(* channels and over the stage positions [0, extent) its consumer pads it  *)
(* to.                                                                     *)
(***************************************************************************)
\* BoundaryConditions::constant_exterior(f, 0.0f, {.., {0, stages}})
\* the lower bound of the padding taken exclusive
pad_stages_from_one(f, stages, x) == IF 0 < x /\ x < stages THEN f[x] ELSE 0

pad_stages(f, stages, x) == IF 0 <= x /\ x < stages THEN f[x] ELSE 0

activation(e) == Max(0, e) + CDiv(e, LeakInv)

Realize(f) == f @@ <<>>

\* compute_root: the Func `in` is realized in full, and then the Func F
\* that reads it
Stage(in, F(_)) == <<in, Realize(F(in))>>[2]

head1_conv(W, pf, st, ns, c, w) ==
    W.head1_bias[c]
    + SumTo(LAMBDA x : SumTo(LAMBDA y :
          MulFix(W.head1_filter[c][x][y], normalized_pipeline_features(pf, st, ns, x, y, w)),
          head1_h), head1_w)

head1_relu(W, pf, st, ns) ==
    [c \in Chan(head1_channels) |->
        Realize([w \in Chan(PaddedStagesExpr(ns)) |-> activation(head1_conv(W, pf, st, ns, c, w))])]

head2_conv(W, nsf, c, w) ==
    W.head2_bias[c]
    + SumTo(LAMBDA x : MulFix(W.head2_filter[c][x], nsf[x][w]), head2_w)

head2_relu(W, nsf, ps) ==
    [c \in Chan(head2_channels) |->
        Realize([w \in Chan(ps) |-> activation(head2_conv(W, nsf, c, w))])]

\* a three-tap convolution over the zero-padded input `in`
Conv3(filter, bias, in, inch, stages, c, w) ==
    bias[c]
    + SumTo(LAMBDA x : SumTo(LAMBDA k :
          MulFix(filter[c][x][k], pad_stages(in[x], stages, w + k - 1)),
          conv_support), inch)

\* the index of the input-channel axis of filter1 that conv1_stage1 reads at
\* r1_stage1.x = x
Stage1FilterIndex(x) == x

\* conv1_stage2 reading filter1 without the offset of the first head
Stage2FilterIndexNoOffset(extent0, x) == x

\* the index conv1_stage2 reads at r1_stage2.x = x:
\* head1_filter.dim(0).extent() + r1_stage2.x
Stage2FilterIndex(extent0, x) == extent0 + x

conv1_stage1(W, h1, ps, c, w) ==
    W.bias1[c]
    + SumTo(LAMBDA x : SumTo(LAMBDA k :
          MulFix(W.filter1[c][Stage1FilterIndex(x)][k], pad_stages(h1[x], ps, w + k - 1)),
          conv_support), head1_channels)

conv1_stage2(W, h1, h2, ps, c, w) ==
    conv1_stage1(W, h1, ps, c, w)
    + SumTo(LAMBDA x : SumTo(LAMBDA k :
          MulFix(W.filter1[c][Stage2FilterIndex(Head1FilterExtent0, x)][k],
                 pad_stages(h2[x], ps, w + k - 1)),
          conv_support), head2_channels)

relu1(W, h1, h2, ps) ==
    [c \in Chan(conv1_channels) |->
        Realize([w \in Chan(ps) |-> activation(conv1_stage2(W, h1, h2, ps, c, w))])]

relu2(W, r1, ps) ==
    [c \in Chan(conv2_channels) |->
        Realize([w \in Chan(ps) |->
            activation(Conv3(W.filter2, W.bias2, r1, conv1_channels, ps, c, w))])]

relu3(W, r2, ps) ==
    [c \in Chan(conv3_channels) |->
        Realize([w \in Chan(ps) |->
            activation(Conv3(W.filter3, W.bias3, r2, conv2_channels, ps, c, w))])]

\* 0.5f * (in(2w - 1) + in(2w)) over the zero-padded input
Pool(in, stages, c, w) ==
    CDiv(pad_stages(in[c], stages, w * 2 - 1) + pad_stages(in[c], stages, w * 2), 2)

pool3(r3, ps) ==
    [c \in Chan(conv3_channels) |->
        Realize([w \in Chan(Pool3Stages(ps)) |-> Pool(r3, ps, c, w)])]

relu4(W, p3, ps) ==
    [c \in Chan(conv4_channels) |->
        Realize([w \in Chan(Pool3Stages(ps)) |->
            activation(Conv3(W.filter4, W.bias4, p3, conv3_channels, Pool3Stages(ps), c, w))])]

pool4(r4, ps) ==
    [c \in Chan(conv4_channels) |->
        Realize([w \in Chan(Pool4Stages(ps)) |-> Pool(r4, Pool3Stages(ps), c, w)])]

relu5(W, p4, ps) ==
    [c \in Chan(conv5_channels) |->
        Realize([w \in Chan(Pool4Stages(ps)) |->
            activation(Conv3(W.filter5, W.bias5, p4, conv4_channels, Pool4Stages(ps), c, w))])]

conv6(W, r5, ps, w) ==
    W.bias6
    + SumTo(LAMBDA c : MulFix(W.filter6[c], pad_stages(r5[c], Pool4Stages(ps), w)),
            conv5_channels)

\* relu6 without the activation
relu6_linear(W, r5, ps) ==
    [w \in Chan(ReduceStages(ps)) |-> conv6(W, r5, ps, w)]

relu6(W, r5, ps) ==
    [w \in Chan(ReduceStages(ps)) |-> activation(conv6(W, r5, ps, w))]

\* the trunk above the heads up to relu5, for one batch element
Relu5Of(W, h1, h2, ps) ==
    LET r1 == Stage(<<h1, h2>>, LAMBDA h : relu1(W, h[1], h[2], ps))
        r2 == Stage(r1, LAMBDA in : relu2(W, in, ps))
        r3 == Stage(r2, LAMBDA in : relu3(W, in, ps))
        p3 == Stage(r3, LAMBDA in : pool3(in, ps))
        r4 == Stage(p3, LAMBDA in : relu4(W, in, ps))
        p4 == Stage(r4, LAMBDA in : pool4(in, ps))
    IN  Stage(p4, LAMBDA in : relu5(W, in, ps))

\* the trunk above the heads, for one batch element
Trunk(W, h1, h2, ps) == Stage(Relu5Of(W, h1, h2, ps), LAMBDA r5 : relu6(W, r5, ps))

\* prediction(n) += relu6(n, r_reduce)
prediction(r6, ps) == <<r6, SumTo(LAMBDA w : r6[w], ReduceStages(ps))>>[2]

(***************************************************************************)
(* The schedule of prediction_output: the batch is computed in groups, one *)
(* element at a time when batch_size < 8 and otherwise in groups of 8, the *)
(* last group shifted inwards so that it ends at batch_size.               *)
(***************************************************************************)
BatchSplit == 8

GroupSize(bs) == IF bs < BatchSplit THEN 1 ELSE BatchSplit

GroupCount(bs) == IF bs <= 0 THEN 0 ELSE (bs + GroupSize(bs) - 1) \div GroupSize(bs)

GroupBase(bs, no) == Min(no * GroupSize(bs), bs - GroupSize(bs))

\* the head shared by the batch: computed at root
PipelineHead(W, pf, st, ns) == Realize(head1_relu(W, pf, st, ns))

\* normalized_schedule_features of one row, over [0, padded_stages)
NormalizedRow(sfn, st, ns) ==
    Realize([c \in Chan(head2_w) |->
        Realize([s \in Chan(PaddedStagesExpr(ns)) |-> normalized_schedule_features(sfn, st, ns, c, s)])])

\* relu6 of one batch element from its normalized schedule features
Relu6Row(W, h1, nsf, ns) ==
    LET ps == PaddedStagesExpr(ns)
        h2 == Stage(nsf, LAMBDA in : head2_relu(W, in, ps))
    IN  Trunk(W, h1, h2, ps)

\* prediction of one batch element
PredictRow(W, h1, nsf, ns) == prediction(Relu6Row(W, h1, nsf, ns), PaddedStagesExpr(ns))

\* every element of a group reading the first row of the group's buffer
GroupPredictionsFirstRow(W, h1, sf, st, ns, bs, no) ==
    LET base == GroupBase(bs, no)
        nsfg == [nl \in Chan(GroupSize(bs)) |-> NormalizedRow(sf[base + nl], st, ns)]
    IN  Realize([nl \in Chan(GroupSize(bs)) |-> PredictRow(W, h1, nsfg[0], ns)])

\* Inference: normalized_schedule_features is computed per group `no`, into
\* a buffer that holds the rows of the group; every element of the group
\* reads its own row of that buffer.
GroupPredictions(W, h1, sf, st, ns, bs, no) ==
    LET base == GroupBase(bs, no)
        nsfg == [nl \in Chan(GroupSize(bs)) |-> NormalizedRow(sf[base + nl], st, ns)]
    IN  Realize([nl \in Chan(GroupSize(bs)) |-> PredictRow(W, h1, nsfg[nl], ns)])

\* the groups that write element n
Writers(bs, n) ==
    {no \in Chan(GroupCount(bs)) :
        GroupBase(bs, no) <= n /\ n < GroupBase(bs, no) + GroupSize(bs)}

\* The groups run in parallel; `last` says which writer of an element
\* writes it last ("low": the lowest group, "high": the highest).
PredictionOutput(W, pf, sf, st, ns, bs, last) ==
    LET gp == Stage(PipelineHead(W, pf, st, ns),
                    LAMBDA h1 : [no \in Chan(GroupCount(bs)) |->
                                    GroupPredictions(W, h1, sf, st, ns, bs, no)])
        writer(n) == IF last = "low"
                     THEN CHOOSE no \in Writers(bs, n) : \A o \in Writers(bs, n) : no <= o
                     ELSE CHOOSE no \in Writers(bs, n) : \A o \in Writers(bs, n) : no >= o
    IN  Stage(gp, LAMBDA g : [n \in Chan(bs) |-> g[writer(n)][n - GroupBase(bs, writer(n))]])

(***************************************************************************)
(* Decimal floating point for the ADAM update: a value is m * 10^e with a  *)
(* mantissa of four digits (1000 <= |m| <= 9999, or m = 0 and e = 0), and  *)
(* every operation truncates its result to four digits.  Float keeps about *)
(* seven; the operations and their order are those of the source.          *)
(***************************************************************************)
RECURSIVE FNorm(_, _)
FNorm(m, e) ==
    IF m = 0 THEN [m |-> 0, e |-> 0]
    ELSE IF Abs(m) >= 10000 THEN FNorm(CDiv(m, 10), e + 1)
    ELSE IF Abs(m) < 1000 THEN FNorm(m * 10, e - 1)
    ELSE [m |-> m, e |-> e]

FZero == FNorm(0, 0)

FOne == FNorm(1, 0)

FNeg(a) == [m |-> -a.m, e |-> a.e]

FAbs(a) == [m |-> Abs(a.m), e |-> a.e]

FMul(a, b) == FNorm(a.m * b.m, a.e + b.e)

\* b # 0
FDiv(a, b) == FNorm(CDiv(a.m * 10000, Abs(b.m)) * Sign(b.m), a.e - b.e - 4)

RECURSIVE Pow10(_)
Pow10(k) == IF k <= 0 THEN 1 ELSE 10 * Pow10(k - 1)

\* an operand more than four decimal places below the other is lost
FAdd(a, b) ==
    IF a.m = 0 THEN b
    ELSE IF b.m = 0 THEN a
    ELSE IF a.e - b.e > 4 THEN a
    ELSE IF b.e - a.e > 4 THEN b
    ELSE IF a.e >= b.e THEN FNorm(a.m * Pow10(a.e - b.e) + b.m, b.e)
    ELSE FNorm(a.m + b.m * Pow10(b.e - a.e), a.e)

FSub(a, b) == FAdd(a, FNeg(b))

FLess(a, b) == FSub(a, b).m < 0

\* the largest r in lo .. hi with r * r <= n
RECURSIVE ISqrt(_, _, _)
ISqrt(n, lo, hi) ==
    IF lo >= hi THEN lo
    ELSE LET mid == (lo + hi + 1) \div 2
         IN  IF mid * mid <= n THEN ISqrt(n, mid, hi) ELSE ISqrt(n, lo, mid - 1)

\* a >= 0
FSqrt(a) ==
    LET odd == a.e % 2 # 0
        m == IF odd THEN a.m * 10 ELSE a.m
        e == IF odd THEN a.e - 1 ELSE a.e
    IN  FNorm(ISqrt(m * 10000, 0, 32000), (e - 4) \div 2)

\* pow(b, n) for an integer n >= 0
RECURSIVE FPow(_, _)
FPow(b, n) == IF n <= 0 THEN FOne ELSE FMul(b, FPow(b, n - 1))

\* a fixed-point value of the forward graph as a float
FromFix(v) == FNorm(v, -5)

(***************************************************************************)
(* ModelWeight<training>::backprop for one entry of a weight.  `u` holds   *)
(* the four planes of the entry in the output buffer grad: the new weight, *)
(* the smoothed derivative, the smoothed second moment, the loss gradient. *)
(***************************************************************************)
Beta1 == FNorm(9, -1)

Beta2 == FNorm(999, -3)

Epsilon == FNorm(1, -8)

\* the two coefficients of the first moment exchanged
smoothed_deriv_swapped(u, g) == FAdd(FMul(FSub(FOne, Beta1), u[1]), FMul(Beta1, g))

smoothed_deriv(u, g) == FAdd(FMul(Beta1, u[1]), FMul(FSub(FOne, Beta1), g))

smoothed_second_moment(u, g) == FAdd(FMul(Beta2, u[2]), FMul(FNorm(1, -3), FMul(g, g)))

smoothed_deriv_correction(timestep_) ==
    FDiv(FOne, FSub(FOne, FPow(Beta1, timestep_ + 1)))

smoothed_second_moment_correction(timestep_) ==
    FDiv(FOne, FSub(FOne, FPow(Beta2, timestep_ + 1)))

AdamStep(u, g, lr, timestep_) ==
    FDiv(FMul(FMul(lr, smoothed_deriv(u, g)), smoothed_deriv_correction(timestep_)),
         FAdd(FSqrt(FMul(smoothed_second_moment(u, g),
                         smoothed_second_moment_correction(timestep_))),
              Epsilon))

\* the four planes of one entry, indexed 0 .. 3 as in the source
Planes(p0, p1, p2, p3) == [p \in 0 .. 3 |-> <<p0, p1, p2, p3>>[p + 1]]

backprop_entry(current_weight, u, g, lr, timestep_) ==
    Planes(FSub(FromFix(current_weight), AdamStep(u, g, lr, timestep_)),
           smoothed_deriv(u, g),
           smoothed_second_moment(u, g),
           g)

\* backprop over a weight of `rank` dimensions
RECURSIVE backprop(_, _, _, _, _, _)
backprop(rank, w, u, g, lr, timestep_) ==
    IF rank = 0 THEN backprop_entry(w, u, g, lr, timestep_)
    ELSE [i \in DOMAIN w |-> backprop(rank - 1, w[i], u[i], g[i], lr, timestep_)]

\* Weight *weights[], in the order of the backprop loop
WeightNames ==
    <<"head1_filter", "head1_bias", "head2_filter", "head2_bias",
      "filter1", "bias1", "filter2", "bias2", "filter3", "bias3",
      "filter4", "bias4", "filter5", "bias5", "filter6", "bias6">>

\* the dimensions each ModelWeight is constructed with
WeightDims ==
    [head1_filter |-> 3, head1_bias |-> 1, head2_filter |-> 2, head2_bias |-> 1,
     filter1 |-> 3, bias1 |-> 1, filter2 |-> 3, bias2 |-> 1, filter3 |-> 3, bias3 |-> 1,
     filter4 |-> 3, bias4 |-> 1, filter5 |-> 3, bias5 |-> 1, filter6 |-> 1, bias6 |-> 0]

Names == {WeightNames[i] : i \in DOMAIN WeightNames}

(***************************************************************************)
(* The inputs the caller supplies.                                         *)
(***************************************************************************)
UniformWeights(f, b) ==
    [head1_filter |-> [c \in Chan(head1_channels) |-> [x \in Chan(head1_w) |-> [y \in Chan(head1_h) |-> f]]],
     head1_bias |-> [c \in Chan(head1_channels) |-> b],
     head2_filter |-> [c \in Chan(head2_channels) |-> [x \in Chan(head2_w) |-> f]],
     head2_bias |-> [c \in Chan(head2_channels) |-> b],
     filter1 |-> [c \in Chan(conv1_channels) |-> [x \in Chan(head1_channels + head2_channels) |-> [k \in Chan(conv_support) |-> f]]],
     bias1 |-> [c \in Chan(conv1_channels) |-> b],
     filter2 |-> [c \in Chan(conv2_channels) |-> [x \in Chan(conv1_channels) |-> [k \in Chan(conv_support) |-> f]]],
     bias2 |-> [c \in Chan(conv2_channels) |-> b],
     filter3 |-> [c \in Chan(conv3_channels) |-> [x \in Chan(conv2_channels) |-> [k \in Chan(conv_support) |-> f]]],
     bias3 |-> [c \in Chan(conv3_channels) |-> b],
     filter4 |-> [c \in Chan(conv4_channels) |-> [x \in Chan(conv3_channels) |-> [k \in Chan(conv_support) |-> f]]],
     bias4 |-> [c \in Chan(conv4_channels) |-> b],
     filter5 |-> [c \in Chan(conv5_channels) |-> [x \in Chan(conv4_channels) |-> [k \in Chan(conv_support) |-> f]]],
     bias5 |-> [c \in Chan(conv5_channels) |-> b],
     filter6 |-> [c \in Chan(conv5_channels) |-> f],
     bias6 |-> b]

\* Filter and bias values that differ along every axis: a tap on the
\* diagonal of the channel axes is 1/2, 1/4 or 1/8 (with `neg`, -1/4), a tap
\* off it 1/16.
Tap(neg, diag, i) ==
    IF ~diag THEN Unit \div 16
    ELSE CASE i % 3 = 0 -> Unit \div 2
           [] i % 3 = 1 -> IF neg THEN -(Unit \div 4) ELSE Unit \div 4
           [] i % 3 = 2 -> Unit \div 8

PatternWeights(neg) ==
    [head1_filter |-> [c \in Chan(head1_channels) |-> [x \in Chan(head1_w) |-> [y \in Chan(head1_h) |-> Tap(neg, x = c /\ y = 0, c)]]],
     head1_bias |-> [c \in Chan(head1_channels) |-> Tap(neg, TRUE, c + 2)],
     head2_filter |-> [c \in Chan(head2_channels) |-> [x \in Chan(head2_w) |-> Tap(neg, x = c, c)]],
     head2_bias |-> [c \in Chan(head2_channels) |-> Tap(neg, TRUE, c + 1)],
     filter1 |-> [c \in Chan(conv1_channels) |-> [x \in Chan(head1_channels + head2_channels) |-> [k \in Chan(conv_support) |-> Tap(neg, x % head1_channels = c, x + k)]]],
     bias1 |-> [c \in Chan(conv1_channels) |-> Tap(neg, TRUE, c + 2)],
     filter2 |-> [c \in Chan(conv2_channels) |-> [x \in Chan(conv1_channels) |-> [k \in Chan(conv_support) |-> Tap(neg, x = c, c + k + 1)]]],
     bias2 |-> [c \in Chan(conv2_channels) |-> Tap(neg, TRUE, c + 2)],
     filter3 |-> [c \in Chan(conv3_channels) |-> [x \in Chan(conv2_channels) |-> [k \in Chan(conv_support) |-> Tap(neg, x = c, c + k)]]],
     bias3 |-> [c \in Chan(conv3_channels) |-> Tap(neg, TRUE, c + 2)],
     filter4 |-> [c \in Chan(conv4_channels) |-> [x \in Chan(conv3_channels) |-> [k \in Chan(conv_support) |-> Tap(neg, x = c, c + k + 2)]]],
     bias4 |-> [c \in Chan(conv4_channels) |-> Tap(neg, TRUE, c + 2)],
     filter5 |-> [c \in Chan(conv5_channels) |-> [x \in Chan(conv4_channels) |-> [k \in Chan(conv_support) |-> Tap(neg, x = c, c + k)]]],
     bias5 |-> [c \in Chan(conv5_channels) |-> Tap(neg, TRUE, c + 2)],
     filter6 |-> [c \in Chan(conv5_channels) |-> Tap(neg, TRUE, c)],
     bias6 |-> Tap(neg, TRUE, 2)]

BiasConsts == {-Unit, Unit, 2 * Unit}

PipelineFeatures(id, ns) ==
    [c \in Chan(head1_w) |-> [j \in Chan(head1_h) |-> [s \in Chan(ns) |->
        ((id + c + 2 * j + s) % 3) * Unit]]]

ScheduleFeatures(id, bs, ns) ==
    [n \in Chan(bs) |-> [c \in Chan(head2_w) |-> [s \in Chan(ns) |->
        ((id + n + c + 2 * s) % 3) * Unit]]]

Stats(id) ==
    [pipeline_mean |-> [c \in Chan(head1_w) |-> [j \in Chan(head1_h) |-> id * Unit]],
     pipeline_std |-> [c \in Chan(head1_w) |-> [j \in Chan(head1_h) |-> (id + 1) * Unit]],
     schedule_mean |-> [c \in Chan(head2_w) |-> id * (Unit \div 2)],
     schedule_std |-> [c \in Chan(head2_w) |-> (id + 1) * Unit]]

TrueRuntime(bs) == [n \in Chan(bs) |-> (2 + (n % 2)) * Unit]

\* the output buffers of a weight before the first training call: all planes zero
RECURSIVE ZeroPlanes(_, _)
ZeroPlanes(rank, w) ==
    IF rank = 0 THEN Planes(FZero, FZero, FZero, FZero)
    ELSE [i \in DOMAIN w |-> ZeroPlanes(rank - 1, w[i])]

ZeroUpdated(W) == [name \in Names |-> ZeroPlanes(WeightDims[name], W[name])]

\* The calls of the specification of inference: every stage count with one
\* row, the bias-only weights of every constant, and the batch sizes around
\* the group size with a few stage counts.
InferArgs ==
    {[ns |-> a, bs |-> 1, pf |-> 0, sf |-> 0, st |-> 1, w |-> W] :
        a \in (-2) .. MaxStages, W \in {UniformWeights(0, Unit), PatternWeights(FALSE)}}
    \cup
    {[ns |-> a, bs |-> 1, pf |-> 1, sf |-> 1, st |-> 0, w |-> UniformWeights(0, b)] :
        a \in {1, MinPaddedStages}, b \in BiasConsts}
    \cup
    {[ns |-> a, bs |-> b, pf |-> 1, sf |-> i, st |-> 0, w |-> PatternWeights(neg)] :
        a \in {0, 1, MinPaddedStages + 1},
        b \in {0, 2, BatchSplit - 1, BatchSplit, MaxBatch},
        i \in {0, 1}, neg \in BOOLEAN}

\* the calls of the specification that also trains
TrainArgs ==
    {[ns |-> a, bs |-> b, pf |-> 1, sf |-> 0, st |-> 0, w |-> UniformWeights(0, Unit), lr |-> FNorm(1, -1)] :
        a \in {0, 3}, b \in {1, 2}}
    \cup
    {[ns |-> a, bs |-> b, pf |-> 1, sf |-> 0, st |-> 0, w |-> PatternWeights(FALSE), lr |-> FNorm(1, -2)] :
        a \in {0, 3}, b \in {1, 2}}

(***************************************************************************)
(* The loss gradient.  d_loss_d = propagate_adjoints(loss_output) is the   *)
(* result of the reverse-mode differentiation of the library; the model    *)
(* draws the gradient of every entry from GradValues.                      *)
(***************************************************************************)
GradValues == <<FZero, FNorm(1, 0), FNorm(-2, 0), FNorm(5, -1)>>

GradIds == {0, 1}

RECURSIVE d_loss_d(_, _, _, _)
d_loss_d(gid, rank, w, h) ==
    IF rank = 0 THEN GradValues[((gid + h) % 4) + 1]
    ELSE [i \in DOMAIN w |-> d_loss_d(gid, rank - 1, w[i], 3 * h + i + 1)]

NameIndex(name) == CHOOSE i \in DOMAIN WeightNames : WeightNames[i] = name

(***************************************************************************)
(* CostModel<training>::generate: the outputs of one run of the pipeline.  *)
(***************************************************************************)
\* Training: every Func is computed at root, over the whole batch.
RootPredictions(W, pf, sf, st, ns, bs) ==
    Stage(PipelineHead(W, pf, st, ns),
          LAMBDA h1 : [n \in Chan(bs) |-> PredictRow(W, h1, NormalizedRow(sf[n], st, ns), ns)])

err(pred, tr, n) == MulFix(pred[n] - tr[n], pred[n] - tr[n])

\* loss / batch_size, batch_size > 0
Loss(pred, tr, bs) == CDiv(SumTo(LAMBDA n : err(pred, tr, n), bs), bs)

\* the backprop loop with the timestep advanced after every weight
UpdatedWeightsSteppedTimestep(W, u, gid, lr, t) ==
    [name \in Names |->
        backprop(WeightDims[name], W[name], u[name],
                 d_loss_d(gid, WeightDims[name], W[name], NameIndex(name)),
                 lr, t + NameIndex(name) - 1)]

\* for (Weight *w : weights) w->backprop(d_loss_d, learning_rate, timestep)
UpdatedWeights(W, u, gid, lr, t) ==
    [name \in Names |->
        backprop(WeightDims[name], W[name], u[name],
                 d_loss_d(gid, WeightDims[name], W[name], NameIndex(name)),
                 lr, t)]

\* the outputs of CostModel<false>
InferenceOutputs(W, pf, sf, st, ns, bs, u, last) ==
    [prediction_output |-> PredictionOutput(W, pf, sf, st, ns, bs, last),
     loss_output |-> <<0>>,
     updated |-> u]

\* the outputs of CostModel<true>
TrainingOutputs(W, pf, sf, st, ns, bs, lr, t, tr, u, gid) ==
    LET pred == RootPredictions(W, pf, sf, st, ns, bs)
    IN  [prediction_output |-> pred,
         loss_output |-> <<Loss(pred, tr, bs)>>,
         updated |-> UpdatedWeights(W, u, gid, lr, t)]

\* the training branch taken whatever the template parameter
generate_training_only(training, W, pf, sf, st, ns, bs, lr, t, tr, u, gid, last) ==
    TrainingOutputs(W, pf, sf, st, ns, bs, lr, t, tr, u, gid)

generate(training, W, pf, sf, st, ns, bs, lr, t, tr, u, gid, last) ==
    IF ~training
    THEN InferenceOutputs(W, pf, sf, st, ns, bs, u, last)
    ELSE TrainingOutputs(W, pf, sf, st, ns, bs, lr, t, tr, u, gid)

(***************************************************************************)
(* The caller and the two pipelines.                                       *)
(***************************************************************************)
\* The caller fills the input buffers of a pipeline and hands over fresh
\* prediction and loss buffers.
SetInputs(A) ==
    /\ pc \in {"idle", "inference", "training"}
    /\ num_stages' = A.ns
    /\ batch_size' = A.bs
    /\ pipeline_features' = PipelineFeatures(A.pf, A.ns)
    /\ schedule_features' = ScheduleFeatures(A.sf, A.bs, A.ns)
    /\ stats' = Stats(A.st)
    /\ true_runtime' = TrueRuntime(A.bs)
    /\ weights' = A.w
    /\ prediction_output' = << >>
    /\ loss_output' = << >>
    /\ padded_stages' = 0
    /\ first_valid' = 0
    /\ pool3_stages' = 0
    /\ pool4_stages' = 0
    /\ reduce_stages' = 0
    /\ conv6_out' = << >>
    /\ intm' = << >>
    /\ bias6_gradient' = << >>

\* inputs for a run of the inference pipeline
PrepareInference ==
    \E A \in InferArgs :
        /\ SetInputs(A)
        /\ pc' = "prepared_inference"
        /\ UNCHANGED <<learning_rate, timestep, updated>>

\* the same, over the calls of the specification that also trains
PrepareSmallInference ==
    \E A \in TrainArgs :
        /\ SetInputs(A)
        /\ pc' = "prepared_inference"
        /\ UNCHANGED <<learning_rate, timestep, updated>>

\* the caller starts a training run: timestep 0 and zero moments
StartTraining ==
    \E A \in TrainArgs :
        /\ SetInputs(A)
        /\ pc' = "prepared_training"
        /\ learning_rate' = A.lr
        /\ timestep' = 0
        /\ updated' = ZeroUpdated(A.w)

\* the caller goes on after a training call: it increments the timestep and
\* leaves the moments the call returned in the output buffers
ContinueTraining ==
    \E A \in TrainArgs :
        /\ pc = "training"
        /\ timestep < MaxTimestep
        /\ SetInputs(A)
        /\ pc' = "prepared_training"
        /\ learning_rate' = A.lr
        /\ timestep' = timestep + 1
        /\ UNCHANGED updated

Geometry ==
    /\ padded_stages' = PaddedStagesExpr(num_stages)
    /\ first_valid' = FirstValidExpr(num_stages)
    /\ pool3_stages' = Pool3Stages(PaddedStagesExpr(num_stages))
    /\ pool4_stages' = Pool4Stages(PaddedStagesExpr(num_stages))
    /\ reduce_stages' = ReduceStages(PaddedStagesExpr(num_stages))

Run(training, gid, last) ==
    LET out == generate(training, weights, pipeline_features, schedule_features, stats,
                        num_stages, batch_size, learning_rate, timestep, true_runtime,
                        updated, gid, last)
    IN  /\ prediction_output' = out.prediction_output
        /\ loss_output' = out.loss_output
        /\ updated' = out.updated

\* one run of halide_autoscheduler_cost_model
InferenceCall ==
    /\ pc = "prepared_inference"
    /\ \E last \in {"low", "high"} : Run(FALSE, 0, last)
    /\ pc' = "inference"
    /\ Geometry
    /\ UNCHANGED <<inputs, reduction>>

\* one run of halide_autoscheduler_train_cost_model
TrainingCall ==
    /\ pc = "prepared_training"
    /\ batch_size > 0
    /\ \E gid \in GradIds : Run(TRUE, gid, "low")
    /\ pc' = "training"
    /\ Geometry
    /\ UNCHANGED <<inputs, reduction>>

Init ==
    /\ pc = "idle"
    /\ num_stages = 1
    /\ batch_size = 1
    /\ pipeline_features = PipelineFeatures(0, 1)
    /\ schedule_features = ScheduleFeatures(0, 1, 1)
    /\ stats = Stats(0)
    /\ weights = PatternWeights(FALSE)
    /\ learning_rate = FNorm(1, -2)
    /\ timestep = 0
    /\ true_runtime = TrueRuntime(1)
    /\ updated = ZeroUpdated(PatternWeights(FALSE))
    /\ prediction_output = << >>
    /\ loss_output = << >>
    /\ padded_stages = 0
    /\ first_valid = 0
    /\ pool3_stages = 0
    /\ pool4_stages = 0
    /\ reduce_stages = 0
    /\ conv6_out = << >>
    /\ intm = << >>
    /\ bias6_gradient = << >>

NextInfer == PrepareInference \/ InferenceCall

SpecInfer == Init /\ [][NextInfer]_vars

Next ==
    \/ PrepareSmallInference
    \/ StartTraining
    \/ ContinueTraining
    \/ InferenceCall
    \/ TrainingCall

Spec == Init /\ [][Next]_vars

(***************************************************************************)
(* The training call in the steps of its schedule.  Every Func is computed *)
(* at root; a gradient Func that reduces over the batch is split into      *)
(* groups of 8 (rfactor), the groups run in parallel into the intermediate *)
(* intm, and the Func itself merges intm.  The steps are followed for the  *)
(* gradient of bias6, whose derivative is written out; the gradients of    *)
(* the other weights are those of d_loss_d.                                *)
(***************************************************************************)
\* conv6 of one batch element
Conv6Row(W, h1, nsf, ns) ==
    LET ps == PaddedStagesExpr(ns)
        h2 == Stage(nsf, LAMBDA in : head2_relu(W, in, ps))
    IN  Stage(Relu5Of(W, h1, h2, ps),
              LAMBDA r5 : [w \in Chan(ReduceStages(ps)) |-> conv6(W, r5, ps, w)])

RootConv6(W, pf, sf, st, ns, bs) ==
    Stage(PipelineHead(W, pf, st, ns),
          LAMBDA h1 : [n \in Chan(bs) |-> Conv6Row(W, h1, NormalizedRow(sf[n], st, ns), ns)])

\* the derivative of activation: (e > 0 ? 1 : 0) + 1e-5
d_activation(e) == (IF e > 0 THEN Unit ELSE 0) + Unit \div LeakInv

\* what batch element n adds to the derivative of loss_output by bias6:
\* (1 / batch_size) * 2 * delta(n) * sum over r_reduce of activation'(conv6(n, w))
Bias6Adjoint(pred, tr, c6, bs, n) ==
    CDiv(MulFix(2 * (pred[n] - tr[n]),
                SumTo(LAMBDA w : d_activation(c6[n][w]), Cardinality(DOMAIN c6[n]))),
         bs)

\* the extent of ro after split(batch_reduce_rvar, ro, ri, 8)
RGroupCount(bs) == (bs + BatchSplit - 1) \div BatchSplit

\* the split rounded down: a last group that is not full is not run
RGroupRangeRoundDown(bs, no) ==
    {n \in (no * BatchSplit) .. (no * BatchSplit + BatchSplit - 1) :
        no * BatchSplit + BatchSplit - 1 < bs}

\* the batch elements group no reduces: the split of an RVar guards its tail
RGroupRange(bs, no) ==
    {n \in (no * BatchSplit) .. (no * BatchSplit + BatchSplit - 1) : n < bs}

\* intm(no): the partial sum of group no
IntmGroup(pred, tr, c6, bs, no) ==
    SumTo(LAMBDA ri :
              IF no * BatchSplit + ri \in RGroupRange(bs, no)
              THEN Bias6Adjoint(pred, tr, c6, bs, no * BatchSplit + ri)
              ELSE 0,
          BatchSplit)

\* the calls of the specification that follows the steps
TrainBatchArgs ==
    {[ns |-> a, bs |-> b, pf |-> 1, sf |-> i, st |-> 0, w |-> UniformWeights(0, Unit), lr |-> FNorm(1, -1)] :
        a \in {1, 3}, b \in {1, 2, BatchSplit - 1, BatchSplit, MaxBatch}, i \in {0, 1}}
    \cup
    {[ns |-> a, bs |-> b, pf |-> 1, sf |-> i, st |-> 0, w |-> PatternWeights(FALSE), lr |-> FNorm(1, -2)] :
        a \in {1, 3}, b \in {1, 2, BatchSplit - 1, BatchSplit, MaxBatch}, i \in {0, 1}}

\* the caller starts a training run: timestep 0 and zero moments
StartTrainingSteps ==
    \E A \in TrainBatchArgs :
        /\ SetInputs(A)
        /\ pc' = "prepared_training"
        /\ learning_rate' = A.lr
        /\ timestep' = 0
        /\ updated' = ZeroUpdated(A.w)

\* the forward graph, the predictions and the loss, computed at root
TrainForward ==
    /\ pc = "prepared_training"
    /\ batch_size > 0
    /\ conv6_out' = RootConv6(weights, pipeline_features, schedule_features, stats,
                              num_stages, batch_size)
    /\ prediction_output' = RootPredictions(weights, pipeline_features, schedule_features,
                                            stats, num_stages, batch_size)
    /\ loss_output' = <<Loss(prediction_output', true_runtime, batch_size)>>
    /\ pc' = "reducing"
    /\ Geometry
    /\ intm' = << >>
    /\ bias6_gradient' = << >>
    /\ UNCHANGED <<inputs, updated>>

\* one group of the batch reduction; the groups run in parallel
ReduceGroup(no) ==
    /\ pc = "reducing"
    /\ no \in Chan(RGroupCount(batch_size))
    /\ no \notin DOMAIN intm
    /\ intm' = intm @@ (no :> IntmGroup(prediction_output, true_runtime, conv6_out,
                                        batch_size, no))
    /\ UNCHANGED <<pc, inputs, updated, prediction_output, loss_output, padded_stages,
                   first_valid, pool3_stages, pool4_stages, reduce_stages,
                   conv6_out, bias6_gradient>>

\* the gradient Func merges intm once every group has run
MergeGroups ==
    /\ pc = "reducing"
    /\ DOMAIN intm = Chan(RGroupCount(batch_size))
    /\ pc' = "merged"
    /\ bias6_gradient' = <<SumTo(LAMBDA ro : intm[ro], RGroupCount(batch_size))>>
    /\ UNCHANGED <<inputs, updated, prediction_output, loss_output, padded_stages,
                   first_valid, pool3_stages, pool4_stages, reduce_stages,
                   conv6_out, intm>>

\* the ADAM update of every weight from the merged gradients
UpdateWeights ==
    /\ pc = "merged"
    /\ pc' = "training"
    /\ \E gid \in GradIds :
           updated' = [UpdatedWeights(weights, updated, gid, learning_rate, timestep)
                          EXCEPT !.bias6 = backprop(WeightDims.bias6, weights.bias6,
                                                    updated.bias6, FromFix(bias6_gradient[1]),
                                                    learning_rate, timestep)]
    /\ UNCHANGED <<inputs, prediction_output, loss_output, padded_stages,
                   first_valid, pool3_stages, pool4_stages, reduce_stages, reduction>>

NextTrain ==
    \/ StartTrainingSteps
    \/ TrainForward
    \/ \E no \in Chan(RGroupCount(MaxBatch)) : ReduceGroup(no)
    \/ MergeGroups
    \/ UpdateWeights

SpecTrain == Init /\ [][NextTrain]_vars

(***************************************************************************)
(* Properties.                                                             *)
(***************************************************************************)
\* a pipeline has run on the inputs of the state
Called == pc \in {"inference", "training"}

\* relu6 of batch element n, on the inputs of the state
StateRelu6(n) ==
    Relu6Row(weights, PipelineHead(weights, pipeline_features, stats, num_stages),
             NormalizedRow(schedule_features[n], stats, num_stages), num_stages)

\* C1: for every num_stages >= 1, padded_stages = max(num_stages, 22) and
\* first_valid = floor((padded_stages - num_stages) / 2); num_stages = 22
\* gives first_valid = 0, num_stages = 10 gives first_valid = 6, and every
\* num_stages >= 22 gives padded_stages = num_stages and first_valid = 0.
C1_PaddingGeometry ==
    (Called /\ num_stages >= 1) =>
        /\ padded_stages = (IF num_stages >= 22 THEN num_stages ELSE 22)
        /\ 2 * first_valid <= padded_stages - num_stages
        /\ padded_stages - num_stages < 2 * first_valid + 2
        /\ (num_stages = 22 => first_valid = 0)
        /\ (num_stages = 10 => first_valid = 6)
        /\ (num_stages >= 22 => (padded_stages = num_stages /\ first_valid = 0))

C1_Witness ==
    pc = "inference" /\ num_stages = 10 /\ padded_stages = 22 /\ first_valid = 6

\* C2: for every num_stages >= 1, the normalized pipeline features and the
\* normalized schedule features are exactly zero at every stage position
\* outside [first_valid, first_valid + num_stages), and a position s inside
\* it holds the whitened raw feature of index s - first_valid.
C2_ZeroOutsideWindow ==
    (Called /\ num_stages >= 1) =>
        \A s \in (-2) .. (padded_stages + 2) :
            LET inside == first_valid <= s /\ s < first_valid + num_stages
            IN  /\ \A c \in Chan(head1_w), j \in Chan(head1_h) :
                       normalized_pipeline_features(pipeline_features, stats, num_stages, c, j, s)
                       = IF inside
                         THEN Whiten(pipeline_features[c][j][s - first_valid],
                                     stats.pipeline_mean[c][j], stats.pipeline_std[c][j])
                         ELSE 0
                /\ \A n \in Chan(batch_size), c \in Chan(head2_w) :
                       normalized_schedule_features(schedule_features[n], stats, num_stages, c, s)
                       = IF inside
                         THEN Whiten(fast_log(schedule_features[n][c][s - first_valid] + Unit),
                                     stats.schedule_mean[c], stats.schedule_std[c])
                         ELSE 0

C2_Witness ==
    /\ pc = "inference"
    /\ num_stages = 3
    /\ batch_size = 1
    /\ first_valid = 9
    /\ normalized_pipeline_features(pipeline_features, stats, num_stages, 0, 0, 9) # 0
    /\ normalized_schedule_features(schedule_features[0], stats, num_stages, 0, 9) # 0
    /\ normalized_pipeline_features(pipeline_features, stats, num_stages, 0, 0, 8) = 0
    /\ normalized_schedule_features(schedule_features[0], stats, num_stages, 0, 12) = 0

\* C3, as stated: when num_stages < 22 and 22 - num_stages is odd, the
\* number of zero positions below the valid window (first_valid) is one
\* greater than the number above it (padded_stages - first_valid -
\* num_stages); when it is even the two are equal.
C3_ExtraSlackLowSide ==
    (Called /\ 1 <= num_stages /\ num_stages < 22) =>
        IF (22 - num_stages) % 2 = 1
        THEN first_valid = (padded_stages - first_valid - num_stages) + 1
        ELSE first_valid = padded_stages - first_valid - num_stages

\* C3, amended: when num_stages < 22 and 22 - num_stages is odd, the number
\* of zero positions below the valid window is one less than the number
\* above it, the extra position being on the high side; when it is even the
\* two are equal.
C3_ExtraSlackHighSide ==
    (Called /\ 1 <= num_stages /\ num_stages < 22) =>
        IF (22 - num_stages) % 2 = 1
        THEN first_valid + 1 = padded_stages - first_valid - num_stages
        ELSE first_valid = padded_stages - first_valid - num_stages

C3_Witness ==
    /\ pc = "inference"
    /\ num_stages = 1
    /\ first_valid = 10
    /\ padded_stages - first_valid - num_stages = 11

\* the end-to-end scenario: one stage, one batch element, all filters zero
\* and all biases equal to the constant c
BiasOnlyScenario(c) ==
    /\ pc = "inference"
    /\ num_stages = 1
    /\ batch_size = 1
    /\ weights = UniformWeights(0, c)

\* C4, as stated: in the end-to-end scenario prediction[0] is a sum over
\* exactly 7 stage positions of the final activation, of which 6 are zero
\* and exactly 1 carries the propagated constant.
C4_SixZeroPositions ==
    \A c \in BiasConsts :
        BiasOnlyScenario(c) =>
            /\ reduce_stages = 7
            /\ Cardinality({w \in Chan(reduce_stages) : StateRelu6(0)[w] = 0}) = 6
            /\ Cardinality({w \in Chan(reduce_stages) : StateRelu6(0)[w] # 0}) = 1

\* C4, amended: in the end-to-end scenario prediction[0] is a sum over
\* exactly 7 stage positions of the final activation, and every one of the
\* 7 positions carries a(c), so that prediction[0] = 7 * a(c).
C4_SevenConstantPositions ==
    \A c \in BiasConsts :
        BiasOnlyScenario(c) =>
            /\ reduce_stages = 7
            /\ DOMAIN StateRelu6(0) = 0 .. 6
            /\ \A w \in 0 .. 6 : StateRelu6(0)[w] = Max(0, c) + c \div LeakInv
            /\ prediction_output[0] = 7 * (Max(0, c) + c \div LeakInv)

C4_Witness ==
    /\ BiasOnlyScenario(Unit)
    /\ reduce_stages = 7
    /\ prediction_output[0] = 7 * (Unit + 1)

\* the prediction of a call with batch_size = 1 on row n of the schedule
\* features alone
SingleCall(n) ==
    InferenceOutputs(weights, pipeline_features, [m \in Chan(1) |-> schedule_features[n]],
                     stats, num_stages, 1, updated, "low").prediction_output[0]

\* C5: for every batch element n, prediction[n] depends only on the weights,
\* the pipeline features and statistics, num_stages and row n of the
\* schedule features: whatever the batch size, the other rows and the
\* groups the batch is computed in, it is the prediction of a call with
\* that row alone.
C5_BatchIndependence ==
    pc = "inference" =>
        /\ DOMAIN prediction_output = Chan(batch_size)
        /\ \A n \in Chan(batch_size) : prediction_output[n] = SingleCall(n)

C5_Witness ==
    /\ pc = "inference"
    /\ batch_size > BatchSplit
    /\ num_stages = 1
    /\ prediction_output[0] # prediction_output[1]
    /\ prediction_output[batch_size - 1] # prediction_output[batch_size - 2]

\* C6: the length (padded_stages + 6) / 4 of the window prediction[n] sums
\* relu6 over equals, for every num_stages >= 1, the extent the two pooling
\* resizes give when applied in sequence to padded_stages, which is the
\* extent pool4 and relu5 are padded to; the prediction is the raw sum of
\* relu6 over that window, not divided by the stage count.
C6_AggregationWindow ==
    (pc = "inference" /\ num_stages >= 1) =>
        /\ reduce_stages = (padded_stages + 6) \div 4
        /\ pool3_stages = padded_stages \div 2 + 1
        /\ pool4_stages = pool3_stages \div 2 + 1
        /\ reduce_stages = pool4_stages
        /\ \A n \in Chan(batch_size) :
               LET r6 == StateRelu6(n)
               IN  /\ DOMAIN r6 = Chan(reduce_stages)
                   /\ prediction_output[n] = SumTo(LAMBDA w : r6[w], reduce_stages)

C6_Witness ==
    /\ pc = "inference"
    /\ num_stages = 26
    /\ pool3_stages = 14
    /\ pool4_stages = 8
    /\ reduce_stages = 8
    /\ prediction_output[0] # 0

\* two floats equal to within a thousandth of their magnitude
FClose(a, b) ==
    LET d == FAbs(FSub(a, b))
    IN  d.m = 0 \/ FLess(d, FMul(FNorm(1, -3), FAdd(FAbs(a), FAbs(b))))

\* the ADAM step as the specification writes it, for one entry: theta the weight
\* before the call, u the planes before the call, un the planes after it
AdamEntryHolds(theta, u, un, lr, t) ==
    LET g == un[3]
        m == FAdd(FMul(FNorm(9, -1), u[1]), FMul(FNorm(1, -1), g))
        v == FAdd(FMul(FNorm(999, -3), u[2]), FMul(FNorm(1, -3), FMul(g, g)))
        m_hat == FDiv(m, FSub(FOne, FPow(FNorm(9, -1), t + 1)))
        v_hat == FDiv(v, FSub(FOne, FPow(FNorm(999, -3), t + 1)))
        theta_new == FSub(FromFix(theta),
                          FDiv(FMul(lr, m_hat), FAdd(FSqrt(v_hat), FNorm(1, -8))))
    IN  /\ un[1] = m
        /\ un[2] = v
        /\ FClose(un[0], theta_new)
        /\ (t = 0 /\ u[1] = FZero /\ u[2] = FZero) =>
               /\ un[1] = FMul(FNorm(1, -1), g)
               /\ un[2] = FMul(FNorm(1, -3), FMul(g, g))
               /\ FClose(m_hat, g)
               /\ FClose(v_hat, FMul(g, g))
               /\ FClose(un[0], FSub(FromFix(theta),
                                     FDiv(FMul(lr, g), FAdd(FAbs(g), FNorm(1, -8)))))
               /\ (g.m > 0 => FLess(un[0], FromFix(theta)))
               /\ (g.m < 0 => FLess(FromFix(theta), un[0]))
               /\ (g.m = 0 => un[0] = FromFix(theta))

RECURSIVE AdamHolds(_, _, _, _, _, _)
AdamHolds(rank, w, u, un, lr, t) ==
    IF rank = 0 THEN AdamEntryHolds(w, u, un, lr, t)
    ELSE /\ DOMAIN un = DOMAIN w
         /\ \A i \in DOMAIN w : AdamHolds(rank - 1, w[i], u[i], un[i], lr, t)

\* C7: for every entry of every weight, one training call computes
\* m = 0.9 m_prev + 0.1 g, v = 0.999 v_prev + 0.001 g^2,
\* m_hat = m / (1 - 0.9^(t+1)), v_hat = v / (1 - 0.999^(t+1)) and
\* theta_new = theta - learning_rate * m_hat / (sqrt(v_hat) + 1e-8); at t = 0
\* with zero moments m = 0.1 g, v = 0.001 g^2, m_hat = g, v_hat = g^2 and
\* theta_new = theta - learning_rate * g / (|g| + 1e-8), the weight moving
\* against the sign of the gradient.
C7_AdamUpdate ==
    [][pc' = "training" =>
          \A name \in Names :
              AdamHolds(WeightDims[name], weights[name], updated[name], updated'[name],
                        learning_rate, timestep)]_vars

C7_Witness ==
    /\ pc = "training"
    /\ timestep = 1
    /\ updated.bias6[3] # FZero
    /\ updated.bias6[1] # FMul(FNorm(1, -1), updated.bias6[3])
    /\ updated.bias6[0] # FromFix(weights.bias6)

\* the loss gradient a training call stored in plane 3 of an output buffer
RECURSIVE GradientPlane(_, _)
GradientPlane(rank, un) ==
    IF rank = 0 THEN un[3]
    ELSE [i \in DOMAIN un |-> GradientPlane(rank - 1, un[i])]

\* C8: one training call updates all 16 weights with the timestep and the
\* learning rate the caller passed to it, the same for every weight, and
\* leaves the timestep as the caller passed it.
C8_SharedTimestep ==
    [][pc' = "training" =>
          /\ timestep' = timestep
          /\ learning_rate' = learning_rate
          /\ Cardinality(DOMAIN updated') = 16
          /\ \A name \in Names :
                 updated'[name] =
                     backprop(WeightDims[name], weights[name], updated[name],
                              GradientPlane(WeightDims[name], updated'[name]),
                              learning_rate, timestep)]_vars

C8_Witness ==
    /\ pc = "training"
    /\ timestep = 1
    /\ learning_rate = FNorm(1, -1)
    /\ \A name \in Names : updated[name] # ZeroUpdated(weights)[name]

\* C9: an inference call leaves the weights and the optimizer state (the
\* output buffers of the weights) as they were, and its loss output is the
\* constant 0.
C9_InferenceReadsOnly ==
    [][pc' = "inference" =>
          /\ weights' = weights
          /\ updated' = updated
          /\ loss_output' = <<0>>]_vars

C9_Witness ==
    /\ pc = "inference"
    /\ loss_output = <<0>>
    /\ num_stages = 3
    /\ updated.bias6[1] # FZero
    /\ updated.bias6[2] # FZero

\* C10: a call with num_stages <= 0 or batch_size <= 0 fails with an
\* InvalidConfiguration error: it produces no prediction, no loss and no
\* weight update.
C10_InvalidConfigurationRejected ==
    [][(pc' \in {"inference", "training"} /\ (num_stages <= 0 \/ batch_size <= 0)) =>
          /\ prediction_output' = << >>
          /\ loss_output' = << >>
          /\ updated' = updated]_vars

\* head1_relu_padded(c, s) and head2_relu_padded(n, c, s) on the inputs of
\* the state
StateHead1Padded(c, s) ==
    pad_stages(PipelineHead(weights, pipeline_features, stats, num_stages)[c],
               PaddedStagesExpr(num_stages), s)

StateHead2Padded(n, c, s) ==
    pad_stages(head2_relu(weights, NormalizedRow(schedule_features[n], stats, num_stages),
                          PaddedStagesExpr(num_stages))[c],
               PaddedStagesExpr(num_stages), s)

\* C11, as stated: for every num_stages >= 1 and all weights, both padded
\* head outputs are exactly zero at every stage position outside the valid
\* window [first_valid, first_valid + num_stages).
C11_HeadsZeroOutsideValidWindow ==
    (pc = "inference" /\ num_stages >= 1) =>
        \A s \in (-2) .. (padded_stages + 2) :
            (s < first_valid \/ s >= first_valid + num_stages) =>
                /\ \A c \in Chan(head1_channels) : StateHead1Padded(c, s) = 0
                /\ \A n \in Chan(batch_size), c \in Chan(head2_channels) :
                       StateHead2Padded(n, c, s) = 0

\* C11, amended: for every num_stages >= 1 and all weights, both padded head
\* outputs are exactly zero at every stage position outside
\* [0, padded_stages); at a position inside [0, padded_stages) and outside
\* the valid window they are the activation of the head bias, a(bias[c]).
C11_HeadsZeroOutsidePaddedStages ==
    (pc = "inference" /\ num_stages >= 1) =>
        \A s \in (-2) .. (padded_stages + 2) :
            (s < first_valid \/ s >= first_valid + num_stages) =>
                LET expected(b) ==
                        IF 0 <= s /\ s < padded_stages
                        THEN Max(0, b) + CDiv(b, LeakInv)
                        ELSE 0
                IN  /\ \A c \in Chan(head1_channels) :
                           StateHead1Padded(c, s) = expected(weights.head1_bias[c])
                    /\ \A n \in Chan(batch_size), c \in Chan(head2_channels) :
                           StateHead2Padded(n, c, s) = expected(weights.head2_bias[c])

C11_Witness ==
    /\ pc = "inference"
    /\ num_stages = 10
    /\ batch_size = 1
    /\ weights.head1_bias[0] # 0
    /\ StateHead1Padded(0, 0) # 0
    /\ StateHead2Padded(0, 0, 21) # 0
    /\ StateHead1Padded(0, 22) = 0
    /\ StateHead2Padded(0, 0, -1) = 0

\* C12, as stated: for every num_stages >= 1 the window pool3 is padded to
\* has length ceil(padded_stages / 2) and the window pool4 is padded to has
\* length ceil(len(pool3 window) / 2).
C12_PoolsHalveRoundedUp ==
    (Called /\ num_stages >= 1) =>
        /\ pool3_stages = (padded_stages + 1) \div 2
        /\ pool4_stages = (pool3_stages + 1) \div 2

\* C12, amended: for every num_stages >= 1 the window pool3 is padded to has
\* length floor(padded_stages / 2) + 1 and the window pool4 is padded to has
\* length floor((padded_stages + 6) / 4) = floor(len(pool3 window) / 2) + 1:
\* each is half the extent rounded down, plus one, which is the half
\* rounded up only when the extent is odd.
C12_PoolsHalveRoundedDownPlusOne ==
    (Called /\ num_stages >= 1) =>
        /\ pool3_stages = padded_stages \div 2 + 1
        /\ pool4_stages = (padded_stages + 6) \div 4
        /\ pool4_stages = pool3_stages \div 2 + 1
        /\ (padded_stages % 2 = 1 => pool3_stages = (padded_stages + 1) \div 2)
        /\ (padded_stages % 2 = 0 => pool3_stages = (padded_stages + 1) \div 2 + 1)
        /\ (pool3_stages % 2 = 1 => pool4_stages = (pool3_stages + 1) \div 2)
        /\ (pool3_stages % 2 = 0 => pool4_stages = (pool3_stages + 1) \div 2 + 1)

C12_Witness ==
    /\ pc = "inference"
    /\ num_stages = 1
    /\ padded_stages = 22
    /\ pool3_stages = 12
    /\ pool4_stages = 7

\* the weights of the state with bias1 zero and filter1 zero but for the
\* index i of its input-channel axis, which is 1
ProbeFilter1(i) ==
    [weights EXCEPT
        !.bias1 = [c \in DOMAIN weights.bias1 |-> 0],
        !.filter1 = [c \in DOMAIN weights.filter1 |->
                        [x \in DOMAIN weights.filter1[c] |->
                            [k \in Chan(conv_support) |-> IF x = i THEN Unit ELSE 0]]]]

\* a head that is v at every channel and stage
ProbeHead(channels, v) ==
    [x \in Chan(channels) |-> [s \in Chan(PaddedStagesExpr(num_stages)) |-> v]]

\* what pass A (conv1_stage1) and pass B (the update of conv1_stage2) add at
\* stage 1 for the probe weights, the pipeline head 1 and the schedule head 2
ProbePassA(i, c) ==
    conv1_stage1(ProbeFilter1(i), ProbeHead(head1_channels, Unit),
                 PaddedStagesExpr(num_stages), c, 1)

ProbePassB(i, c) ==
    conv1_stage2(ProbeFilter1(i), ProbeHead(head1_channels, Unit),
                 ProbeHead(head2_channels, 2 * Unit), PaddedStagesExpr(num_stages), c, 1)
    - ProbePassA(i, c)

ProbeAt(stages, p) == [c \in {0} |-> [x \in Chan(stages) |-> IF x = p THEN Unit ELSE 0]]

ProbeOnes(stages) == [c \in {0} |-> [x \in Chan(stages) |-> Unit]]

\* the output positions of a pool, among those around its window, that read
\* position p of an input over [0, stages)
PoolReaders(stages, p) ==
    {w \in (-1) .. (stages + 1) : Pool(ProbeAt(stages, p), stages, 0, w) # 0}

\* every position of an input over [0, stages) is read by exactly one output
\* position of the pool, through 2w - 1 or 2w, and that position is inside
\* the window [0, out) the pool is padded to; what the pool reads outside
\* the input adds zero
PoolKeepsEveryPosition(stages, out) ==
    /\ \A p \in Chan(stages) :
           /\ Cardinality(PoolReaders(stages, p)) = 1
           /\ \A w \in PoolReaders(stages, p) :
                  /\ 0 <= w /\ w < out
                  /\ (p = 2 * w - 1 \/ p = 2 * w)
    /\ \A w \in Chan(out) :
           Pool(ProbeOnes(stages), stages, 0, w)
           = (Unit * Cardinality({x \in {2 * w - 1, 2 * w} : 0 <= x /\ x < stages})) \div 2

\* C15: pooling drops no stage position.  For every num_stages >= 1 every
\* position of relu3 inside [0, padded_stages) and every position of relu4
\* inside [0, padded_stages / 2 + 1) is read by exactly one output position
\* w of its pool, through 2w - 1 or 2w, that w lies inside the window the
\* pool output is padded to, and what the pool reads outside the input
\* window adds zero.
C15_PoolingKeepsEveryPosition ==
    (Called /\ num_stages >= 1) =>
        /\ PoolKeepsEveryPosition(padded_stages, pool3_stages)
        /\ PoolKeepsEveryPosition(pool3_stages, pool4_stages)
        /\ pool3_stages = padded_stages \div 2 + 1

C15_Witness ==
    /\ pc = "inference"
    /\ num_stages = 23
    /\ padded_stages = 23
    /\ PoolReaders(padded_stages, 22) = {11}
    /\ pool3_stages = 12
    /\ PoolReaders(pool3_stages, 11) = {6}
    /\ pool4_stages = 7

\* the derivative of the loss by bias6 summed over every batch element, on
\* the buffers of the state
FullBatchBias6Gradient ==
    SumTo(LAMBDA n : Bias6Adjoint(prediction_output, true_runtime, conv6_out, batch_size, n),
          batch_size)

\* the mean over the batch of (prediction[n] - true_runtime[n])^2
MeanSquaredError ==
    SumTo(LAMBDA n : MulFix(prediction_output[n] - true_runtime[n],
                            prediction_output[n] - true_runtime[n]),
          batch_size) \div batch_size

====
